---- MODULE Spec2Model ----
(***************************************************************************)
(* SSH tunnel of redistal (src-tauri/src/ssh_tunnel.rs): SshTunnel::new,   *)
(* the accept loop of start_forwarding, the per-connection forwarder       *)
(* handle_connection / copy_bidirectional, and Drop for SshTunnel; and the  *)
(* caller of the tunnel, RedisConnectionManager (src-tauri/src/             *)
(* redis_client.rs): connect, disconnect, build_connection_string.         *)
(***************************************************************************)
EXTENDS Integers, Sequences, FiniteSets, TLC

(* ------------------------------ bounds --------------------------------- *)

\* connections a client opens to the tunnel's local port during one run
MaxConns == 2
\* ports of the scanned range 9000..9999 that the model follows
PortCount == 2
\* longest byte sequence a peer writes on one connection
MaxLen == 3
\* size of stream_buf / channel_buf (32768 in the source), scaled down
BufSize == 2
\* connection ids the RedisConnectionManager is called with
MaxIds == 1
\* threads that call into the RedisConnectionManager at the same time
MaxThreads == 2
\* width in bits of idle_count (32 in the source, a u32), scaled down
IdleBits == 7

(* ------------------------- program constants --------------------------- *)

SSH_TIMEOUT_MS == 10000
PortBase == 9000
FallbackPort == 9000
IdleThreshold == 100
ShortDelayMs == 1
LongDelayMs == 10

Ports == PortBase .. (PortBase + PortCount - 1)
Conns == 1 .. MaxConns
NoSession == 0
ValidationOwner == 0
NoPort == 0

(* ----------------------------- variables ------------------------------- *)

VARIABLES
  config,      \* the SshTunnelConfig given to SshTunnel::new (immutable)
  newPc,       \* position of the caller inside SshTunnel::new
  newErr,      \* Err(..) returned by SshTunnel::new, "" when none
  newSession,  \* id of the validation session held by SshTunnel::new
  local_port,  \* the local variable / field local_port
  sessions,    \* every ssh2::Session created so far, by id
  busyPorts,   \* ports of 127.0.0.1 bound by other processes
  listeners,   \* ports on which this process holds a bound TcpListener
  handle,      \* the SshTunnel value: "none", "live", "dropped"
  stop_signal, \* the shared AtomicBool
  acceptPc,    \* position of the accept-loop thread
  acceptConn,  \* the connection accept() just returned, 0 when none
  ownerErrs,   \* errors delivered to the owner of the SshTunnel
  conns,       \* the local connections and their forwarder threads
  connections, \* RedisConnectionManager.connections: id -> Option<Client>
  ssh_tunnels, \* RedisConnectionManager.ssh_tunnels: id -> Option<SshTunnel>
  lastCall,    \* the last completed call of the manager and what it returned
  sshCall,     \* a call of create_ssh_session on its own: answers and Result
  task,        \* one task followed call by call: position, timeout, modes
  calls        \* the manager's calls in progress, one per calling thread:
               \* position and MutexGuards held

vars == << config, newPc, newErr, newSession, local_port, sessions, busyPorts,
           listeners, handle, stop_signal, acceptPc, acceptConn, ownerErrs,
           conns, connections, ssh_tunnels, lastCall, sshCall, task, calls >>

\* the state of the callers and of the calls followed on their own, which no
\* step of one tunnel touches
Callers == << connections, ssh_tunnels, lastCall, sshCall, task, calls >>

(* --------------------------- configuration ----------------------------- *)

\* Option<T>: None is <<>>, Some(x) is <<x>>
None == << >>
Some(x) == << x >>
IsSome(o) == Len(o) = 1
Unwrap(o) == o[1]

\* the fields of SshTunnelConfig that SshTunnel::new and create_ssh_session
\* read; ssh_password and ssh_private_key_path carry an opaque value
SshTunnelConfig ==
  [ auth_method : {"Password", "PrivateKey"},
    ssh_password : {None, Some("pw")},
    ssh_private_key_path : {None, Some("key")},
    local_port : {None, Some(0), Some(PortBase + 1)} ]

\* a configuration only differs in the fields its auth_method reads
Configs ==
  { c \in SshTunnelConfig :
      /\ c.auth_method = "Password" => c.ssh_private_key_path = None
      /\ c.auth_method = "PrivateKey" => c.ssh_password = None }

(* ----------------------------- sessions -------------------------------- *)

\* what the network, the SSH server and the file system answer during one
\* call of create_ssh_session
SessionEnv ==
  { e \in [ tcp : BOOLEAN, session_new : BOOLEAN, handshake : BOOLEAN,
            key_exists : BOOLEAN, userauth : BOOLEAN, authenticated : BOOLEAN ] :
      ~e.userauth => ~e.authenticated }

SessionErr(msg, tried) ==
  [ ok |-> FALSE, err |-> msg, auth_called |-> tried ]

\* create_ssh_session without the session.authenticated() check of lines
\* 145-147: a userauth_* call that raised no error is taken as success
create_ssh_session_unchecked(cfg, e) ==
  IF ~e.tcp THEN SessionErr("SSH connection failed", FALSE)
  ELSE IF ~e.session_new THEN SessionErr("SSH session creation failed", FALSE)
  ELSE IF ~e.handshake THEN SessionErr("SSH handshake failed", FALSE)
  ELSE IF cfg.auth_method = "Password"
    THEN IF ~IsSome(cfg.ssh_password)
           THEN SessionErr("SSH password required", FALSE)
         ELSE IF ~e.userauth
           THEN SessionErr("SSH authentication failed: userauth", TRUE)
         ELSE [ ok |-> TRUE, err |-> "", auth_called |-> TRUE ]
    ELSE IF ~IsSome(cfg.ssh_private_key_path)
           THEN SessionErr("SSH private key path required", FALSE)
         ELSE IF ~e.key_exists
           THEN SessionErr("SSH private key file not found", FALSE)
         ELSE IF ~e.userauth
           THEN SessionErr("SSH key authentication failed", TRUE)
         ELSE [ ok |-> TRUE, err |-> "", auth_called |-> TRUE ]

\* create_ssh_session: the Result it returns, and whether a userauth_* call
\* was made
create_ssh_session(cfg, e) ==
  IF ~e.tcp THEN SessionErr("SSH connection failed", FALSE)
  ELSE IF ~e.session_new THEN SessionErr("SSH session creation failed", FALSE)
  ELSE IF ~e.handshake THEN SessionErr("SSH handshake failed", FALSE)
  ELSE IF cfg.auth_method = "Password"
    THEN IF ~IsSome(cfg.ssh_password)
           THEN SessionErr("SSH password required", FALSE)
         ELSE IF ~e.userauth
           THEN SessionErr("SSH authentication failed: userauth", TRUE)
         ELSE IF ~e.authenticated
           THEN SessionErr("SSH authentication failed", TRUE)
         ELSE [ ok |-> TRUE, err |-> "", auth_called |-> TRUE ]
    ELSE IF ~IsSome(cfg.ssh_private_key_path)
           THEN SessionErr("SSH private key path required", FALSE)
         ELSE IF ~e.key_exists
           THEN SessionErr("SSH private key file not found", FALSE)
         ELSE IF ~e.userauth
           THEN SessionErr("SSH key authentication failed", TRUE)
         ELSE IF ~e.authenticated
           THEN SessionErr("SSH authentication failed", TRUE)
         ELSE [ ok |-> TRUE, err |-> "", auth_called |-> TRUE ]

\* every Result a call of create_ssh_session can return for a configuration
SessionOutcomes(cfg) == { create_ssh_session(cfg, e) : e \in SessionEnv }

\* the Session value create_ssh_session returns: timeout set at line 102,
\* blocking by default, owned by the caller
NewSessionRec(owner) ==
  [ created |-> TRUE, owner |-> owner, open |-> TRUE,
    timeout |-> SSH_TIMEOUT_MS, blocking |-> TRUE ]

\* a Session object is named after the call that constructs it: 1 for the
\* call in SshTunnel::new, c + 1 for the call in the forwarder of connection c
SessionIds == 1 .. (MaxConns + 1)
SessionOf(owner) == owner + 1
NotCreated ==
  [ created |-> FALSE, owner |-> ValidationOwner, open |-> FALSE,
    timeout |-> 0, blocking |-> TRUE ]

\* drop(session) tearing down what the sessions would share (one transport
\* to the bastion): every session is closed
DropSessionShared(ss, id) ==
  IF id = NoSession THEN ss ELSE [ i \in DOMAIN ss |-> [ ss[i] EXCEPT !.open = FALSE ] ]

\* drop(session): the session is closed for whoever holds its id
DropSession(ss, id) ==
  IF id = NoSession THEN ss ELSE [ ss EXCEPT ![id].open = FALSE ]

(* ------------------------- port allocation ----------------------------- *)

RECURSIVE FirstFree(_, _)
\* (9000..10000).find(|port| bind(port).is_ok()), from port p upward
FirstFree(p, busy) ==
  IF p > PortBase + PortCount - 1 THEN None
  ELSE IF p \notin busy THEN Some(p)
  ELSE FirstFree(p + 1, busy)

\* find_available_port: each probing listener is dropped inside the closure
find_available_port(busy) == FirstFree(PortBase, busy)

\* config.local_port.unwrap_or_else(|| find_available_port().unwrap_or(9000))
ChooseLocalPort(cfg, busy) ==
  IF IsSome(cfg.local_port) THEN Unwrap(cfg.local_port)
  ELSE IF IsSome(find_available_port(busy)) THEN Unwrap(find_available_port(busy))
  ELSE FallbackPort

\* ports a TcpListener::bind("127.0.0.1:port") can end up bound to: the port
\* itself when it is free, any free port when port is 0, none when taken
BindOutcomes(port, busy, mine) ==
  IF port = 0 THEN Ports \ (busy \cup mine)
  ELSE IF port \in busy \cup mine THEN {} ELSE {port}

(* --------------------------- connections ------------------------------- *)

\* one local connection: the client's side, the forwarder thread serving it
\* and the two byte streams between client and target
FreeConn ==
  [ st |-> "free",        \* position of the forwarder (see the actions)
    result |-> "",        \* what handle_connection returned
    session |-> NoSession,
    channel |-> "none",   \* "none", "open", "closed", "dropped"
    socket |-> "none",    \* "none", "open", "dropped"
    cli_sent |-> 0,       \* bytes the client has written
    cli_closed |-> FALSE, \* the client closed its socket
    sock_in |-> << >>,    \* written by the client, not yet read
    chan_out |-> << >>,   \* written to the channel by the forwarder
    tgt_sent |-> 0,       \* bytes the target has sent
    tgt_eof |-> FALSE,    \* the target sent end-of-data
    chan_in |-> << >>,    \* sent by the target, not yet read
    sock_out |-> << >> ]  \* written to the local socket by the forwarder

\* the forwarder thread of a connection exists and has not returned
Running(cn) == cn.st \in {"session", "channel", "init", "local", "remote"}
InPump(cn) == cn.st \in {"local", "remote"}

(* ------------------- RedisConnectionManager: data ---------------------- *)

Ids == 1 .. MaxIds

\* config.host and config.port of a ConnectionConfig: the Redis server
RedisHost == "redis"
RedisPort == 6379
Localhost == "127.0.0.1"

\* the fields of ConnectionConfig and of its ssh_tunnel that connect and
\* build_connection_string read
ConnectionConfig ==
  [ id : Ids,
    host : {RedisHost},
    port : {RedisPort},
    ssh_tunnel : {None} \cup
      { Some(t) : t \in [ enabled : BOOLEAN,
                          local_port : {None, Some(0), Some(PortBase + 1)} ] } ]

\* a task before its first call: no socket, no Session; a Session is created
\* blocking and without timeout (0), a TcpStream blocking
\* no read made yet
NoRead ==
  [ side |-> "none", ret |-> "none", eof |-> FALSE, would_block_kind |-> FALSE,
    eagain |-> FALSE, would_block_msg |-> FALSE ]

\* progress and idle_count are the locals of copy_bidirectional (lines 235
\* and 238); read is the result of the task's latest read, slept the length
\* in ms of the sleep that ended the latest iteration (0: none), idle_run the
\* number of iterations since the last one that transferred bytes
TaskStart ==
  [ kind |-> "none", pc |-> "start", timeout |-> 0, blocking |-> TRUE,
    stream_nonblocking |-> FALSE, result |-> "",
    progress |-> FALSE, idle_count |-> 0, idle_run |-> 0, slept |-> 0,
    read |-> NoRead ]

\* threads calling into one RedisConnectionManager
Threads == 1 .. MaxThreads

\* the two mutexes of RedisConnectionManager (lines 51-52)
Mutexes == {"connections", "ssh_tunnels"}

\* a thread that is in no call of the manager
NoCall == [ op |-> "none", pc |-> "idle", ssh |-> FALSE, held |-> {} ]

\* RedisConnectionManager::new, and no call made yet
CallersInit ==
  /\ connections = [ i \in Ids |-> None ]
  /\ ssh_tunnels = [ i \in Ids |-> None ]
  /\ lastCall = None
  /\ sshCall = None
  /\ task = TaskStart
  /\ calls = [ t \in Threads |-> NoCall ]

(* ------------------------------- Init ---------------------------------- *)

\* configurations the connections of a tunnel are followed for: one per
\* authentication method that can succeed, the port left to the scan
LifecycleConfigs ==
  { c \in Configs :
      /\ c.local_port = None
      /\ c.auth_method = "Password" => IsSome(c.ssh_password)
      /\ c.auth_method = "PrivateKey" => IsSome(c.ssh_private_key_path) }

InitWith(cfgs, busy) ==
  /\ config \in cfgs
  /\ newPc = "create_session"
  /\ newErr = ""
  /\ newSession = NoSession
  /\ local_port = NoPort
  /\ sessions = [ i \in SessionIds |-> NotCreated ]
  /\ busyPorts \in busy
  /\ listeners = {}
  /\ handle = "none"
  /\ stop_signal = FALSE
  /\ acceptPc = "none"
  /\ acceptConn = 0
  /\ ownerErrs = {}
  /\ conns = [ c \in Conns |-> FreeConn ]
  /\ CallersInit

Init == InitWith(LifecycleConfigs, {{}})

(* --------------------------- SshTunnel::new ---------------------------- *)

\* the validation session is created by a fresh create_ssh_session call
ValidationSession(ss) ==
  [ table |-> [ ss EXCEPT ![SessionOf(ValidationOwner)] = NewSessionRec(ValidationOwner) ],
    id |-> SessionOf(ValidationOwner) ]

\* `?` on an Err: every local still held is dropped, the Err goes to the caller
NewFails(msg) ==
  /\ newPc' = "returned_err"
  /\ newErr' = msg
  /\ ownerErrs' = ownerErrs \cup {msg}
  /\ sessions' = DropSession(sessions, newSession)
  /\ newSession' = NoSession

\* line 36
NewCreateSession ==
  /\ newPc = "create_session"
  /\ \E r \in SessionOutcomes(config) :
       IF r.ok
         THEN /\ sessions' = ValidationSession(sessions).table
              /\ newSession' = ValidationSession(sessions).id
              /\ newPc' = "probe"
              /\ UNCHANGED << newErr, ownerErrs >>
         ELSE NewFails(r.err)
  /\ UNCHANGED << Callers, config, local_port, busyPorts, listeners, handle,
                  stop_signal, acceptPc, acceptConn, conns >>

\* a SshTunnel::new that binds the listener before it probes the target: the
\* listener is dropped again when the probe fails
NewProbeAfterBind ==
  /\ newPc = "probe"
  /\ \E reachable \in BOOLEAN :
       IF reachable /\ BindOutcomes(PortBase, busyPorts, listeners) # {}
         THEN /\ newPc' = "drop_session"
              /\ listeners' = listeners \cup {PortBase}
              /\ UNCHANGED << newErr, ownerErrs, sessions, newSession >>
         ELSE /\ NewFails("SSH tunnel probe failed to reach")
              /\ UNCHANGED listeners
  /\ UNCHANGED << Callers, config, local_port, busyPorts, handle,
                  stop_signal, acceptPc, acceptConn, conns >>

\* lines 39-52: open the probe channel, close it
NewProbe ==
  /\ newPc = "probe"
  /\ \E reachable \in BOOLEAN :
       IF reachable
         THEN /\ newPc' = "drop_session"
              /\ UNCHANGED << newErr, ownerErrs, sessions, newSession >>
         ELSE NewFails("SSH tunnel probe failed to reach")
  /\ UNCHANGED << Callers, config, local_port, busyPorts, listeners, handle,
                  stop_signal, acceptPc, acceptConn, conns >>

\* line 55
NewDropSession ==
  /\ newPc = "drop_session"
  /\ sessions' = DropSession(sessions, newSession)
  /\ newSession' = NoSession
  /\ newPc' = "choose_port"
  /\ UNCHANGED << Callers, config, newErr, local_port, busyPorts, listeners, handle,
                  stop_signal, acceptPc, acceptConn, ownerErrs, conns >>

\* lines 58-60
NewChoosePort ==
  /\ newPc = "choose_port"
  /\ local_port' = ChooseLocalPort(config, busyPorts)
  /\ newPc' = "bind"
  /\ UNCHANGED << Callers, config, newErr, newSession, sessions, busyPorts, listeners,
                  handle, stop_signal, acceptPc, acceptConn, ownerErrs, conns >>

NewBindSwallowsError ==
  /\ newPc = "bind"
  /\ IF BindOutcomes(local_port, busyPorts, listeners) = {}
       THEN /\ newPc' = "start_forwarding"
            /\ UNCHANGED << listeners, newErr, ownerErrs, sessions, newSession >>
       ELSE /\ \E p \in BindOutcomes(local_port, busyPorts, listeners) :
                 listeners' = listeners \cup {p}
            /\ newPc' = "start_forwarding"
            /\ UNCHANGED << newErr, ownerErrs, sessions, newSession >>
  /\ UNCHANGED << Callers, config, local_port, busyPorts, handle, stop_signal,
                  acceptPc, acceptConn, conns >>

\* lines 63-64
NewBind ==
  /\ newPc = "bind"
  /\ IF BindOutcomes(local_port, busyPorts, listeners) = {}
       THEN /\ NewFails("Failed to bind local tunnel port")
            /\ UNCHANGED listeners
       ELSE /\ \E p \in BindOutcomes(local_port, busyPorts, listeners) :
                 listeners' = listeners \cup {p}
            /\ newPc' = "start_forwarding"
            /\ UNCHANGED << newErr, ownerErrs, sessions, newSession >>
  /\ UNCHANGED << Callers, config, local_port, busyPorts, handle, stop_signal,
                  acceptPc, acceptConn, conns >>

\* start_forwarding followed by a step that can still fail: the thread is
\* spawned and SshTunnel::new returns Err
NewStartForwardingThenFails ==
  /\ newPc = "start_forwarding"
  /\ stop_signal' = FALSE
  /\ acceptPc' = "check"
  /\ newPc' = "returned_err"
  /\ newErr' = "failed after start_forwarding"
  /\ ownerErrs' = ownerErrs \cup {"failed after start_forwarding"}
  /\ UNCHANGED << Callers, config, newSession, local_port, sessions, busyPorts,
                  listeners, handle, acceptConn, conns >>

\* lines 67-76 and 164-168: the flag is created false, the listener is made
\* non-blocking and moved into the spawned accept-loop thread
NewStartForwarding ==
  /\ newPc = "start_forwarding"
  /\ stop_signal' = FALSE
  /\ acceptPc' = "check"
  /\ newPc' = "return_ok"
  /\ UNCHANGED << Callers, config, newErr, newSession, local_port, sessions, busyPorts,
                  listeners, handle, acceptConn, ownerErrs, conns >>

\* lines 78-81
NewReturn ==
  /\ newPc = "return_ok"
  /\ handle' = "live"
  /\ newPc' = "returned_ok"
  /\ UNCHANGED << Callers, config, newErr, newSession, local_port, sessions, busyPorts,
                  listeners, stop_signal, acceptPc, acceptConn, ownerErrs,
                  conns >>

\* Drop for SshTunnel, lines 89-93
Drop ==
  /\ handle = "live"
  /\ handle' = "dropped"
  /\ stop_signal' = TRUE
  /\ UNCHANGED << Callers, config, newPc, newErr, newSession, local_port, sessions,
                  busyPorts, listeners, acceptPc, acceptConn, ownerErrs, conns >>

\* another process binds or releases a port of 127.0.0.1
OtherProcessBinds ==
  /\ \E p \in Ports \ (busyPorts \cup listeners) : busyPorts' = busyPorts \cup {p}
  /\ UNCHANGED << Callers, config, newPc, newErr, newSession, local_port, sessions,
                  listeners, handle, stop_signal, acceptPc, acceptConn,
                  ownerErrs, conns >>

OtherProcessReleases ==
  /\ \E p \in busyPorts : busyPorts' = busyPorts \ {p}
  /\ UNCHANGED << Callers, config, newPc, newErr, newSession, local_port, sessions,
                  listeners, handle, stop_signal, acceptPc, acceptConn,
                  ownerErrs, conns >>

(* ---------------------- accept loop (start_forwarding) ----------------- *)

\* the connection at the head of the listener's backlog, 0 when it is empty
PendingConn(cs) ==
  IF \E c \in Conns : cs[c].st = "pending"
    THEN CHOOSE c \in Conns :
           cs[c].st = "pending" /\ \A d \in Conns : cs[d].st = "pending" => c <= d
    ELSE 0

\* the listener is dropped: connections still in its backlog are refused
RefusePending(cs) ==
  [ c \in Conns |->
      IF cs[c].st = "pending" THEN [ cs[c] EXCEPT !.st = "refused" ] ELSE cs[c] ]

\* what listener.accept() can return at line 174
AcceptResults(cs) ==
  (IF PendingConn(cs) # 0 THEN {"ok"} ELSE {"would_block"}) \cup {"error"}

\* an accept loop that never looks at the flag
ObservesStopNever(flag) == FALSE

\* lines 170-172: the flag is read once per iteration
ObservesStop(flag) == flag

\* the thread's closure returns: the listener it owns is dropped
AcceptLoopExits ==
  /\ acceptPc' = "exited"
  /\ listeners' = {}
  /\ conns' = RefusePending(conns)
  /\ UNCHANGED acceptConn

\* the flag read with swap(false): observing it clears it
AcceptCheckSwap ==
  /\ acceptPc = "check"
  /\ IF stop_signal
       THEN /\ AcceptLoopExits
            /\ stop_signal' = FALSE
       ELSE /\ acceptPc' = "accept"
            /\ UNCHANGED << listeners, conns, acceptConn, stop_signal >>
  /\ UNCHANGED << Callers, config, newPc, newErr, newSession, local_port, sessions,
                  busyPorts, handle, ownerErrs >>

AcceptCheck ==
  /\ acceptPc = "check"
  /\ IF ObservesStop(stop_signal)
       THEN AcceptLoopExits
       ELSE /\ acceptPc' = "accept"
            /\ UNCHANGED << listeners, conns, acceptConn >>
  /\ UNCHANGED << Callers, config, newPc, newErr, newSession, local_port, sessions,
                  busyPorts, handle, stop_signal, ownerErrs >>

\* line 174 and the match on its result
AcceptAccept ==
  /\ acceptPc = "accept"
  /\ \E r \in AcceptResults(conns) :
       CASE r = "ok" ->
              /\ acceptConn' = PendingConn(conns)
              /\ conns' = [ conns EXCEPT ![PendingConn(conns)].st = "accepted",
                                         ![PendingConn(conns)].socket = "open" ]
              /\ acceptPc' = "spawn"
              /\ UNCHANGED listeners
         [] r = "would_block" ->
              /\ acceptPc' = "sleep"
              /\ UNCHANGED << listeners, conns, acceptConn >>
         [] r = "error" -> AcceptLoopExits
  /\ UNCHANGED << Callers, config, newPc, newErr, newSession, local_port, sessions,
                  busyPorts, handle, stop_signal, ownerErrs >>

\* a loop that goes from the spawn straight to the next accept
AcceptSpawnSkipsCheck ==
  /\ acceptPc = "spawn"
  /\ conns' = [ conns EXCEPT ![acceptConn].st = "session" ]
  /\ acceptConn' = 0
  /\ acceptPc' = "accept"
  /\ UNCHANGED << Callers, config, newPc, newErr, newSession, local_port, sessions,
                  busyPorts, listeners, handle, stop_signal, ownerErrs >>

\* lines 176-181: the forwarder thread is spawned with the accepted stream
AcceptSpawn ==
  /\ acceptPc = "spawn"
  /\ conns' = [ conns EXCEPT ![acceptConn].st = "session" ]
  /\ acceptConn' = 0
  /\ acceptPc' = "check"
  /\ UNCHANGED << Callers, config, newPc, newErr, newSession, local_port, sessions,
                  busyPorts, listeners, handle, stop_signal, ownerErrs >>

\* lines 183-185
AcceptSleep ==
  /\ acceptPc = "sleep"
  /\ acceptPc' = "check"
  /\ UNCHANGED << Callers, config, newPc, newErr, newSession, local_port, sessions,
                  busyPorts, listeners, handle, stop_signal, acceptConn,
                  ownerErrs, conns >>

(* ------------------ forwarder (handle_connection) ---------------------- *)

Take(s, n) == SubSeq(s, 1, n)
Skip(s, n) == SubSeq(s, n + 1, Len(s))
Min(a, b) == IF a < b THEN a ELSE b

\* the n-th byte the client writes, the n-th byte the target sends
ClientByte(n) == n
TargetByte(n) == 0 - n
ClientBytes(n) == [ i \in 1 .. n |-> ClientByte(i) ]
TargetBytes(n) == [ i \in 1 .. n |-> TargetByte(i) ]

\* the forwarder takes the session SshTunnel::new authenticated instead of
\* creating its own
ForwarderSessionReused(ss, c) ==
  [ table |-> [ ss EXCEPT ![SessionOf(ValidationOwner)].open = TRUE ],
    id |-> SessionOf(ValidationOwner) ]

\* line 203: the forwarder's session comes from its own create_ssh_session call
ForwarderSession(ss, c) ==
  [ table |-> [ ss EXCEPT ![SessionOf(c)] = NewSessionRec(c) ], id |-> SessionOf(c) ]

\* a forwarder that releases its stream and channel only on its clean
\* returns and keeps them open when it returns an error
ReturnedLeaksOnError(cn, res) ==
  IF res = "ok"
    THEN [ cn EXCEPT !.st = "done", !.result = res, !.socket = "dropped",
                     !.channel = IF @ = "open" THEN "dropped" ELSE @ ]
    ELSE [ cn EXCEPT !.st = "done", !.result = res ]

\* handle_connection returns: its stream, channel and session are dropped
Returned(cn, res) ==
  [ cn EXCEPT !.st = "done", !.result = res, !.socket = "dropped",
              !.channel = IF @ = "open" THEN "dropped" ELSE @ ]

\* line 203
FwdCreateSession(c) ==
  /\ conns[c].st = "session"
  /\ \E r \in SessionOutcomes(config) :
       IF r.ok
         THEN /\ sessions' = ForwarderSession(sessions, c).table
              /\ conns' = [ conns EXCEPT
                              ![c].session = ForwarderSession(sessions, c).id,
                              ![c].st = "channel" ]
         ELSE /\ conns' = [ conns EXCEPT ![c] = Returned(@, r.err) ]
              /\ UNCHANGED sessions
  /\ UNCHANGED << Callers, config, newPc, newErr, newSession, local_port, busyPorts,
                  listeners, handle, stop_signal, acceptPc, acceptConn,
                  ownerErrs >>

\* handle_connection's error propagated out of the accept loop with `?`:
\* the loop ends and the owner sees the error
FwdOpenChannelEscalates(c) ==
  /\ conns[c].st = "channel"
  /\ \E opened \in BOOLEAN :
       IF opened
         THEN /\ sessions' = [ sessions EXCEPT ![conns[c].session].timeout = 0,
                                               ![conns[c].session].blocking = FALSE ]
              /\ conns' = [ conns EXCEPT ![c].channel = "open", ![c].st = "init" ]
              /\ UNCHANGED << acceptPc, listeners, ownerErrs >>
         ELSE /\ sessions' = DropSession(
                   [ sessions EXCEPT ![conns[c].session].timeout = 0 ],
                   conns[c].session)
              /\ conns' = [ conns EXCEPT
                              ![c] = Returned(@, "Failed to create SSH channel") ]
              /\ acceptPc' = IF acceptPc = "none" THEN "none" ELSE "exited"
              /\ listeners' = {}
              /\ ownerErrs' = ownerErrs \cup {"Failed to create SSH channel"}
  /\ UNCHANGED << Callers, config, newPc, newErr, newSession, local_port, busyPorts,
                  handle, stop_signal, acceptConn >>

\* lines 206-214: clear the timeout, open the channel, go non-blocking
FwdOpenChannel(c) ==
  /\ conns[c].st = "channel"
  /\ \E opened \in BOOLEAN :
       IF opened
         THEN /\ sessions' = [ sessions EXCEPT ![conns[c].session].timeout = 0,
                                               ![conns[c].session].blocking = FALSE ]
              /\ conns' = [ conns EXCEPT ![c].channel = "open", ![c].st = "init" ]
         ELSE /\ sessions' = DropSession(
                   [ sessions EXCEPT ![conns[c].session].timeout = 0 ],
                   conns[c].session)
              /\ conns' = [ conns EXCEPT
                              ![c] = Returned(@, "Failed to create SSH channel") ]
  /\ UNCHANGED << Callers, config, newPc, newErr, newSession, local_port, busyPorts,
                  listeners, handle, stop_signal, acceptPc, acceptConn,
                  ownerErrs >>

\* lines 229-235: entry of copy_bidirectional
FwdPumpInit(c) ==
  /\ conns[c].st = "init"
  /\ \E set \in BOOLEAN :
       IF set
         THEN /\ conns' = [ conns EXCEPT ![c].st = "local" ]
              /\ UNCHANGED sessions
         ELSE /\ sessions' = DropSession(sessions, conns[c].session)
              /\ conns' = [ conns EXCEPT
                        ![c] = Returned(@, "Failed to set stream non-blocking") ]
  /\ UNCHANGED << Callers, config, newPc, newErr, newSession, local_port, busyPorts,
                  listeners, handle, stop_signal, acceptPc, acceptConn,
                  ownerErrs >>

\* what stream.read(&mut stream_buf) can return at line 241: a chunk of n
\* bytes, Ok(0) once the client has closed, WouldBlock, or another error
LocalReads(cn) ==
  { [ kind |-> "data", n |-> n ] : n \in 1 .. Min(BufSize, Len(cn.sock_in)) }
  \cup (IF cn.sock_in = << >> /\ cn.cli_closed
          THEN { [ kind |-> "eof", n |-> 0 ] } ELSE {})
  \cup (IF cn.sock_in = << >> /\ ~cn.cli_closed
          THEN { [ kind |-> "would_block", n |-> 0 ] } ELSE {})
  \cup { [ kind |-> "error", n |-> 0 ] }

\* what channel.read(&mut channel_buf) can return at line 267
ChannelReads(cn) ==
  { [ kind |-> "data", n |-> n ] : n \in 1 .. Min(BufSize, Len(cn.chan_in)) }
  \cup (IF cn.chan_in = << >> /\ cn.tgt_eof
          THEN { [ kind |-> "eof", n |-> 0 ] } ELSE {})
  \cup (IF cn.chan_in = << >> /\ ~cn.tgt_eof
          THEN { [ kind |-> "would_block", n |-> 0 ] } ELSE {})
  \cup { [ kind |-> "error", n |-> 0 ] }

\* channel.eof(): the target's end-of-data has arrived and nothing is queued
ChannelEof(cn) == cn.tgt_eof /\ cn.chan_in = << >>

\* lines 251-256: write_all on the channel with the session in blocking
\* mode; w.n bytes reach the channel, all of them unless the write fails
ChannelWrites(n) ==
  { [ kind |-> "ok", n |-> n ] } \cup { [ kind |-> "error", n |-> k ] : k \in 0 .. n - 1 }

\* line 274: write_all on the non-blocking stream; it stops at the first
\* write that would block or fails
StreamWrites(n) ==
  { [ kind |-> "ok", n |-> n ] }
  \cup { [ kind |-> "would_block", n |-> k ] : k \in 0 .. n - 1 }
  \cup { [ kind |-> "error", n |-> k ] : k \in 0 .. n - 1 }

\* a pump that goes on after a failed write_all to the channel instead of
\* returning the error: the bytes that write did not take are lost
PumpLocalStepIgnoresWriteError(cn, r, w) ==
  CASE r.kind = "eof" ->
         Returned([ cn EXCEPT !.channel = "closed" ], "ok")
    [] r.kind = "would_block" -> [ cn EXCEPT !.st = "remote" ]
    [] r.kind = "error" -> Returned(cn, "Stream read error")
    [] r.kind = "data" ->
         [ cn EXCEPT !.sock_in = Skip(@, r.n),
                     !.chan_out = @ \o Take(cn.sock_in, w.n),
                     !.st = "remote" ]

\* lines 241-264: one read of the local stream and what follows it
PumpLocalStep(cn, r, w) ==
  CASE r.kind = "eof" ->
         Returned([ cn EXCEPT !.channel = "closed" ], "ok")
    [] r.kind = "would_block" -> [ cn EXCEPT !.st = "remote" ]
    [] r.kind = "error" -> Returned(cn, "Stream read error")
    [] r.kind = "data" ->
         LET wrote == [ cn EXCEPT !.sock_in = Skip(@, r.n),
                                  !.chan_out = @ \o Take(cn.sock_in, w.n) ]
         IN IF w.kind = "ok"
              THEN [ wrote EXCEPT !.st = "remote" ]
              ELSE Returned(wrote, "Failed to write to channel")

\* lines 267-293: one read of the channel and what follows it, up to the
\* end of the iteration (the back-off sleep of lines 295-300 touches only
\* the loop's own idle counter)
PumpRemoteStep(cn, r, w) ==
  CASE r.kind = "eof" -> Returned(cn, "ok")
    [] r.kind = "would_block" -> [ cn EXCEPT !.st = "local" ]
    [] r.kind = "error" -> Returned(cn, "Channel read error")
    [] r.kind = "data" ->
         LET wrote == [ cn EXCEPT !.chan_in = Skip(@, r.n),
                                  !.sock_out = @ \o Take(cn.chan_in, w.n) ]
         IN IF w.kind = "ok"
              THEN IF ChannelEof(wrote)
                     THEN Returned(wrote, "ok")
                     ELSE [ wrote EXCEPT !.st = "local" ]
              ELSE Returned(wrote, IF w.kind = "would_block"
                                     THEN "Failed to write to stream: WouldBlock"
                                     ELSE "Failed to write to stream")

\* the forwarder's session after a pump step: non-blocking again (line 256)
\* while the loop goes on; dropped when the forwarder returned, still in
\* blocking mode when it returned from the failed write_all of line 253
AfterPump(ss, cn) ==
  IF cn.st # "done" THEN ss
  ELSE IF cn.result = "Failed to write to channel"
    THEN DropSession([ ss EXCEPT ![cn.session].blocking = TRUE ], cn.session)
    ELSE DropSession(ss, cn.session)

\* a pump loop that also polls the tunnel's flag and returns when it is set
PumpLocalChecksStop(c) ==
  /\ conns[c].st = "local"
  /\ \E r \in LocalReads(conns[c]) :
       \E w \in ChannelWrites(r.n) :
         LET next == IF stop_signal THEN Returned(conns[c], "ok")
                     ELSE PumpLocalStep(conns[c], r, w)
         IN /\ conns' = [ conns EXCEPT ![c] = next ]
            /\ sessions' = AfterPump(sessions, next)
  /\ UNCHANGED << Callers, config, newPc, newErr, newSession, local_port, busyPorts,
                  listeners, handle, stop_signal, acceptPc, acceptConn,
                  ownerErrs >>

PumpLocal(c) ==
  /\ conns[c].st = "local"
  /\ \E r \in LocalReads(conns[c]) :
       \E w \in ChannelWrites(r.n) :
         /\ conns' = [ conns EXCEPT ![c] = PumpLocalStep(@, r, w) ]
         /\ sessions' = AfterPump(sessions, PumpLocalStep(conns[c], r, w))
  /\ UNCHANGED << Callers, config, newPc, newErr, newSession, local_port, busyPorts,
                  listeners, handle, stop_signal, acceptPc, acceptConn,
                  ownerErrs >>

PumpRemote(c) ==
  /\ conns[c].st = "remote"
  /\ \E r \in ChannelReads(conns[c]) :
       \E w \in StreamWrites(r.n) :
         /\ conns' = [ conns EXCEPT ![c] = PumpRemoteStep(@, r, w) ]
         /\ sessions' = AfterPump(sessions, PumpRemoteStep(conns[c], r, w))
  /\ UNCHANGED << Callers, config, newPc, newErr, newSession, local_port, busyPorts,
                  listeners, handle, stop_signal, acceptPc, acceptConn,
                  ownerErrs >>

(* --------------------- the client and the target ----------------------- *)

\* the next unused connection
NextFree(cs) ==
  IF \E c \in Conns : cs[c].st = "free"
    THEN CHOOSE c \in Conns : cs[c].st = "free" /\ \A d \in Conns : cs[d].st = "free" => c <= d
    ELSE 0

Lifecycle == << Callers, config, newPc, newErr, newSession, local_port, busyPorts,
                listeners, handle, stop_signal, acceptPc, acceptConn, ownerErrs >>

\* a client connects to the bound listener and waits in its backlog
ClientConnect ==
  /\ listeners # {}
  /\ NextFree(conns) # 0
  /\ conns' = [ conns EXCEPT ![NextFree(conns)].st = "pending" ]
  /\ UNCHANGED << Lifecycle, sessions >>

\* the client writes its next byte to its socket
ClientWrite(c) ==
  /\ conns[c].st \in {"pending", "accepted"} \/ Running(conns[c])
  /\ ~conns[c].cli_closed
  /\ conns[c].cli_sent < MaxLen
  /\ conns' = [ conns EXCEPT ![c].cli_sent = @ + 1,
                             ![c].sock_in = Append(@, ClientByte(conns[c].cli_sent + 1)) ]
  /\ UNCHANGED << Lifecycle, sessions >>

\* the client closes its socket
ClientClose(c) ==
  /\ conns[c].st \in {"pending", "accepted"} \/ Running(conns[c])
  /\ ~conns[c].cli_closed
  /\ conns' = [ conns EXCEPT ![c].cli_closed = TRUE ]
  /\ UNCHANGED << Lifecycle, sessions >>

\* the target sends its next byte down the channel
TargetSend(c) ==
  /\ Running(conns[c])
  /\ conns[c].channel = "open"
  /\ ~conns[c].tgt_eof
  /\ conns[c].tgt_sent < MaxLen
  /\ conns' = [ conns EXCEPT ![c].tgt_sent = @ + 1,
                             ![c].chan_in = Append(@, TargetByte(conns[c].tgt_sent + 1)) ]
  /\ UNCHANGED << Lifecycle, sessions >>

\* the target closes its side: end-of-data arrives on the channel
TargetEof(c) ==
  /\ Running(conns[c])
  /\ conns[c].channel = "open"
  /\ ~conns[c].tgt_eof
  /\ conns' = [ conns EXCEPT ![c].tgt_eof = TRUE ]
  /\ UNCHANGED << Lifecycle, sessions >>

(* ------------------- create_ssh_session on its own --------------------- *)

\* the variables of one tunnel
TunnelState == << config, newPc, newErr, newSession, local_port, sessions,
                 busyPorts, listeners, handle, stop_signal, acceptPc,
                 acceptConn, ownerErrs, conns >>

\* one call create_ssh_session(&config), against any answers of the network,
\* the SSH server and the file system
CallCreateSshSession ==
  /\ sshCall = None
  /\ \E e \in SessionEnv :
       sshCall' = Some([ env |-> e, result |-> create_ssh_session(config, e) ])
  /\ UNCHANGED << TunnelState, connections, ssh_tunnels, lastCall, task, calls >>

(* ---------------- one task, blocking call by blocking call ------------- *)

\* the task is at a call (task.pc names the call it executes next) with the
\* timeout and the modes the earlier statements have left in force

TaskOther == << TunnelState, connections, ssh_tunnels, lastCall, sshCall, calls >>

TaskFails(msg) == [ task EXCEPT !.pc = "failed", !.result = msg ]

\* answers with which create_ssh_session gets as far as authenticating
AuthEnvs == { e \in SessionEnv : e.tcp /\ e.session_new /\ e.handshake }

\* the thread of SshTunnel::new (line 36) or of a forwarder (line 203)
\* enters create_ssh_session
TaskBegin ==
  /\ task.pc = "start"
  /\ \E k \in {"validation", "forwarder"} :
       task' = [ task EXCEPT !.kind = k, !.pc = "tcp_connect" ]
  /\ UNCHANGED TaskOther

\* line 97: TcpStream::connect(addr), which takes no timeout
TaskTcpConnect ==
  /\ task.pc = "tcp_connect"
  /\ \E ok \in BOOLEAN :
       task' = IF ok THEN [ task EXCEPT !.pc = "session_new" ]
               ELSE TaskFails("SSH connection failed")
  /\ UNCHANGED TaskOther

\* lines 100-103: Session::new, set_timeout(SSH_TIMEOUT_MS), set_tcp_stream
TaskSessionNew ==
  /\ task.pc = "session_new"
  /\ \E ok \in BOOLEAN :
       task' = IF ok THEN [ task EXCEPT !.pc = "handshake",
                                       !.timeout = SSH_TIMEOUT_MS ]
               ELSE TaskFails("SSH session creation failed")
  /\ UNCHANGED TaskOther

\* lines 104-106
TaskHandshake ==
  /\ task.pc = "handshake"
  /\ \E ok \in BOOLEAN :
       task' = IF ok THEN [ task EXCEPT !.pc = "userauth" ]
               ELSE TaskFails("SSH handshake failed")
  /\ UNCHANGED TaskOther

\* lines 109-149: the authentication arm of the configured method, the
\* authenticated() check, and the return to the caller of create_ssh_session
TaskAuthenticate ==
  /\ task.pc = "userauth"
  /\ \E e \in AuthEnvs :
       task' = IF create_ssh_session(config, e).ok
                 THEN [ task EXCEPT !.pc = IF task.kind = "validation"
                                             THEN "probe_open"
                                             ELSE "clear_timeout" ]
                 ELSE TaskFails(create_ssh_session(config, e).err)
  /\ UNCHANGED TaskOther

\* lines 39-55: the probe channel is opened, closed, and the session dropped
TaskProbe ==
  /\ task.pc = "probe_open"
  /\ \E ok \in BOOLEAN :
       task' = IF ok THEN [ task EXCEPT !.pc = "done", !.result = "ok" ]
               ELSE TaskFails("SSH tunnel probe failed to reach")
  /\ UNCHANGED TaskOther

\* line 206: session.set_timeout(0), 0 meaning no timeout
TaskClearTimeout ==
  /\ task.pc = "clear_timeout"
  /\ task' = [ task EXCEPT !.pc = "channel_open", !.timeout = 0 ]
  /\ UNCHANGED TaskOther

\* lines 209-214: channel_direct_tcpip, then session.set_blocking(false)
TaskChannelOpen ==
  /\ task.pc = "channel_open"
  /\ \E ok \in BOOLEAN :
       task' = IF ok THEN [ task EXCEPT !.pc = "pump_entry", !.blocking = FALSE ]
               ELSE TaskFails("Failed to create SSH channel")
  /\ UNCHANGED TaskOther

\* lines 229-235: stream.set_nonblocking(true)
TaskPumpEntry ==
  /\ task.pc = "pump_entry"
  /\ \E ok \in BOOLEAN :
       task' = IF ok THEN [ task EXCEPT !.pc = "stream_read",
                                       !.stream_nonblocking = TRUE ]
               ELSE TaskFails("Failed to set stream non-blocking")
  /\ UNCHANGED TaskOther

\* what stream.read (line 241) returns: Ok(0), Ok(n) or an error of some kind
StreamReadResults ==
  { [ NoRead EXCEPT !.side = "stream", !.ret = r ] : r \in {"zero", "data"} }
  \cup { [ NoRead EXCEPT !.side = "stream", !.ret = "err",
                         !.would_block_kind = k ] : k \in BOOLEAN }

\* what channel.read (line 267) returns, eof being what channel.eof() answers
\* after it: Ok(0), Ok(n), or an error of some kind whose message may hold
\* "EAGAIN" or "would block"; a channel with nothing queued and the end of
\* data received answers Ok(0), so that no error leaves eof true
ChannelReadResults ==
  { [ NoRead EXCEPT !.side = "channel", !.ret = r, !.eof = e ] :
      r \in {"zero", "data"}, e \in BOOLEAN } \cup
  [ side : {"channel"}, ret : {"err"}, eof : {FALSE},
    would_block_kind : BOOLEAN, eagain : BOOLEAN, would_block_msg : BOOLEAN ]

\* the guard of lines 260 and 281: e.kind() == ErrorKind::WouldBlock
IsWouldBlock(r) == r.ret = "err" /\ r.would_block_kind

\* lines 284-285: msg.contains("EAGAIN") or msg.contains("would block")
MessageSaysWouldBlock(r) == r.eagain \/ r.would_block_msg

\* lines 241-264: the iteration starts (line 238), stream.read and the match
\* on its result; on data the session is made blocking (line 251) for the
\* write to the channel
TaskStreamReadStep(t, r) ==
  LET t0 == [ t EXCEPT !.progress = FALSE, !.read = r ]
  IN  CASE r.ret = "zero" -> [ t0 EXCEPT !.pc = "done", !.result = "ok" ]
        [] r.ret = "data" -> [ t0 EXCEPT !.pc = "channel_write",
                                         !.blocking = TRUE ]
        [] IsWouldBlock(r) -> [ t0 EXCEPT !.pc = "channel_read" ]
        [] OTHER -> [ t0 EXCEPT !.pc = "failed",
                                !.result = "Stream read error" ]

TaskStreamRead ==
  /\ task.pc = "stream_read"
  /\ \E r \in StreamReadResults : task' = TaskStreamReadStep(task, r)
  /\ UNCHANGED TaskOther

TaskChannelWriteKeepsBlocking ==
  /\ task.pc = "channel_write"
  /\ \E ok \in BOOLEAN :
       task' = IF ok THEN [ task EXCEPT !.pc = "channel_read",
                                       !.progress = TRUE, !.idle_count = 0,
                                       !.idle_run = 0 ]
               ELSE TaskFails("Failed to write to channel")
  /\ UNCHANGED TaskOther

\* lines 252-258: channel.write_all and flush, then set_blocking(false),
\* progress = true and idle_count = 0; the return of line 253 leaves with the
\* session still blocking
TaskChannelWrite ==
  /\ task.pc = "channel_write"
  /\ \E ok \in BOOLEAN :
       task' = IF ok THEN [ task EXCEPT !.pc = "channel_read",
                                       !.blocking = FALSE,
                                       !.progress = TRUE, !.idle_count = 0,
                                       !.idle_run = 0 ]
               ELSE TaskFails("Failed to write to channel")
  /\ UNCHANGED TaskOther

\* the values of a u32 scaled to IdleBits bits
IdleRange == 2 ^ IdleBits

\* lines 295-300: the iteration ends. idle_count += 1 on a u32: past the
\* largest value the addition panics in a build with overflow checks and
\* wraps to 0 in a build without them
Backoff(t, overflow_checks) ==
  IF t.progress
    THEN [ t EXCEPT !.pc = "stream_read", !.slept = 0 ]
    ELSE IF t.idle_count + 1 >= IdleRange /\ overflow_checks
           THEN [ t EXCEPT !.pc = "panicked",
                           !.result = "attempt to add with overflow" ]
           ELSE LET n == (t.idle_count + 1) % IdleRange
                IN  [ t EXCEPT !.pc = "stream_read",
                               !.idle_count = n,
                               !.idle_run = Min(t.idle_run + 1, IdleRange),
                               !.slept = IF n > IdleThreshold
                                           THEN LongDelayMs
                                           ELSE ShortDelayMs ]

\* lines 267-300: channel.read and the match on its result (w: write_all to
\* the stream succeeds), the eof check of line 291 and the back-off
TaskChannelReadStep(t, r, w, overflow_checks) ==
  LET t0 == [ t EXCEPT !.read = r ]
  IN  CASE r.ret = "zero" /\ r.eof -> [ t0 EXCEPT !.pc = "done", !.result = "ok" ]
        [] r.ret = "zero" /\ ~r.eof -> Backoff(t0, overflow_checks)
        [] r.ret = "data" /\ ~w ->
             [ t0 EXCEPT !.pc = "failed", !.result = "Failed to write to stream" ]
        [] r.ret = "data" /\ w ->
             LET t1 == [ t0 EXCEPT !.progress = TRUE, !.idle_count = 0,
                                   !.idle_run = 0 ]
             IN  IF r.eof THEN [ t1 EXCEPT !.pc = "done", !.result = "ok" ]
                 ELSE Backoff(t1, overflow_checks)
        [] IsWouldBlock(r) -> Backoff(t0, overflow_checks)
        [] MessageSaysWouldBlock(r) -> Backoff(t0, overflow_checks)
        [] OTHER -> [ t0 EXCEPT !.pc = "failed", !.result = "Channel read error" ]

TaskChannelRead ==
  /\ task.pc = "channel_read"
  /\ \E r \in ChannelReadResults, w \in BOOLEAN, overflow_checks \in BOOLEAN :
       task' = TaskChannelReadStep(task, r, w, overflow_checks)
  /\ UNCHANGED TaskOther

(* ------------------- RedisConnectionManager: calls --------------------- *)

\* ssh_config.enabled of a configured tunnel (lines 68-69 and 191-192)
TunnelWanted(cfg) == IsSome(cfg.ssh_tunnel) /\ Unwrap(cfg.ssh_tunnel).enabled

\* ports bound by the listeners of the SshTunnels in the map
TunnelPorts(ts) == { Unwrap(ts[i]).bound : i \in { j \in Ids : IsSome(ts[j]) } }

\* SshTunnel::new(ssh_config, ..) as its caller sees it: Err, or a tunnel
\* with the local_port it stores and the port its listener is bound to,
\* given the ports of 127.0.0.1 that are taken
SshTunnelNew(t, busy) ==
  { [ ok |-> FALSE, local_port |-> NoPort, bound |-> NoPort ] } \cup
  { [ ok |-> TRUE, local_port |-> ChooseLocalPort(t, busy), bound |-> b ] :
      b \in BindOutcomes(ChooseLocalPort(t, busy), busy, {}) }

\* the SshTunnel value of an Ok result
TunnelOf(tr) == [ local_port |-> tr.local_port, bound |-> tr.bound ]

\* build_connection_string that never looks at the tunnel map
build_connection_string_direct(ts, cfg) ==
  [ host |-> cfg.host, port |-> cfg.port ]

\* build_connection_string, lines 190-204: the host and port of the URL
build_connection_string(ts, cfg) ==
  IF TunnelWanted(cfg) /\ IsSome(ts[cfg.id])
    THEN [ host |-> Localhost, port |-> Unwrap(ts[cfg.id]).local_port ]
    ELSE [ host |-> cfg.host, port |-> cfg.port ]

\* what Client::open, the handshake thread and PING answer (lines 98-138)
RedisOutcomes ==
  { "open_err", "handshake_err", "handshake_timeout", "ping_err", "ok" }

\* what a call leaves behind for its caller
CallRecord(op, id, cfg, tunnel, client, connected) ==
  [ op |-> op, id |-> id, config |-> cfg, tunnel |-> tunnel,
    client |-> client, connected |-> connected ]

\* connect, lines 63-162, for the results tr of SshTunnel::new and ro of the
\* Redis server: the maps it leaves and what it returns
ConnectStep(cs, ts, cfg, tr, ro) ==
  IF TunnelWanted(cfg) /\ ~tr.ok
    THEN [ connections |-> cs, ssh_tunnels |-> ts,
           call |-> CallRecord("connect", cfg.id, Some(cfg), None, None,
                               FALSE) ]
  ELSE
    LET ts1 == IF TunnelWanted(cfg)
                 THEN [ ts EXCEPT ![cfg.id] = Some(TunnelOf(tr)) ] ELSE ts
        made == IF TunnelWanted(cfg) THEN Some(TunnelOf(tr)) ELSE None
        addr == build_connection_string(ts1, cfg)
    IN CASE ro = "open_err" ->
              [ connections |-> cs,
                ssh_tunnels |-> [ ts1 EXCEPT ![cfg.id] = None ],
                call |-> CallRecord("connect", cfg.id, Some(cfg), made, None,
                                    FALSE) ]
         [] ro \in {"handshake_err", "handshake_timeout"} ->
              [ connections |-> cs,
                ssh_tunnels |-> [ ts1 EXCEPT ![cfg.id] = None ],
                call |-> CallRecord("connect", cfg.id, Some(cfg), made,
                                    Some(addr), FALSE) ]
         [] ro = "ping_err" ->
              [ connections |-> cs, ssh_tunnels |-> ts1,
                call |-> CallRecord("connect", cfg.id, Some(cfg), made,
                                    Some(addr), FALSE) ]
         [] ro = "ok" ->
              [ connections |-> [ cs EXCEPT ![cfg.id] = Some(addr) ],
                ssh_tunnels |-> ts1,
                call |-> CallRecord("connect", cfg.id, Some(cfg), made,
                                    Some(addr), TRUE) ]

\* connect_to_redis (commands.rs 40-46): one call of connect, made with the
\* manager's mutex held
Connect ==
  /\ \E cfg \in ConnectionConfig : \E ro \in RedisOutcomes :
       \E tr \in (IF TunnelWanted(cfg)
                    THEN SshTunnelNew(Unwrap(cfg.ssh_tunnel),
                                      TunnelPorts(ssh_tunnels))
                    ELSE { [ ok |-> FALSE, local_port |-> NoPort, bound |-> NoPort ] }) :
         LET step == ConnectStep(connections, ssh_tunnels, cfg, tr, ro)
         IN /\ connections' = step.connections
            /\ ssh_tunnels' = step.ssh_tunnels
            /\ lastCall' = Some(step.call)
  /\ UNCHANGED << TunnelState, sshCall, task, calls >>

\* disconnect, lines 164-173
Disconnect ==
  /\ \E id \in Ids :
       /\ connections' = [ connections EXCEPT ![id] = None ]
       /\ ssh_tunnels' = [ ssh_tunnels EXCEPT ![id] = None ]
       /\ lastCall' = Some(CallRecord("disconnect", id, None, None, None,
                                      IsSome(connections[id])))
  /\ UNCHANGED << TunnelState, sshCall, task, calls >>

(* --------------- RedisConnectionManager: the two mutexes --------------- *)

\* the calls are followed guard by guard: calls[t].pc is the statement
\* thread t executes next, calls[t].held the mutexes whose guard it holds

\* threads holding the guard of mutex m
LockHolder(m) == { t \in Threads : m \in calls[t].held }

\* the `.lock()` statements: the method, the position, the mutex locked and
\* the position that follows
LockPoints ==
  { [ op |-> "connect", pc |-> "lock_insert", mutex |-> "ssh_tunnels",
      next |-> "insert_tunnel" ],
    [ op |-> "connect", pc |-> "lock_read", mutex |-> "ssh_tunnels",
      next |-> "read_tunnel" ],
    [ op |-> "connect", pc |-> "lock_remove", mutex |-> "ssh_tunnels",
      next |-> "remove_tunnel" ],
    [ op |-> "connect", pc |-> "lock_register", mutex |-> "connections",
      next |-> "register" ],
    [ op |-> "disconnect", pc |-> "lock_connections", mutex |-> "connections",
      next |-> "lock_tunnels" ],
    [ op |-> "disconnect", pc |-> "lock_tunnels", mutex |-> "ssh_tunnels",
      next |-> "remove_both" ],
    [ op |-> "get_connection", pc |-> "lock_connections",
      mutex |-> "connections", next |-> "get" ] }

\* guards that live to the end of connect
ScopeEndsKeepTunnelGuard ==
  { [ op |-> "connect", pc |-> "insert_tunnel", drops |-> {},
      next |-> "build" ],
    [ op |-> "connect", pc |-> "read_tunnel", drops |-> {},
      next |-> "open" ],
    [ op |-> "connect", pc |-> "remove_tunnel", drops |-> Mutexes,
      next |-> "return" ],
    [ op |-> "connect", pc |-> "register", drops |-> Mutexes,
      next |-> "return" ],
    [ op |-> "disconnect", pc |-> "remove_both", drops |-> Mutexes,
      next |-> "return" ],
    [ op |-> "get_connection", pc |-> "get", drops |-> {"connections"},
      next |-> "return" ] }

\* the ends of the scopes that hold a guard: the statements made under the
\* guard are executed and the guard is dropped
ScopeEnds ==
  { [ op |-> "connect", pc |-> "insert_tunnel", drops |-> {"ssh_tunnels"},
      next |-> "build" ],
    [ op |-> "connect", pc |-> "read_tunnel", drops |-> {"ssh_tunnels"},
      next |-> "open" ],
    [ op |-> "connect", pc |-> "remove_tunnel", drops |-> {"ssh_tunnels"},
      next |-> "return" ],
    [ op |-> "connect", pc |-> "register", drops |-> {"connections"},
      next |-> "return" ],
    [ op |-> "disconnect", pc |-> "remove_both", drops |-> Mutexes,
      next |-> "return" ],
    [ op |-> "get_connection", pc |-> "get", drops |-> {"connections"},
      next |-> "return" ] }

\* a thread enters connect, disconnect or get_connection
CallBegin ==
  /\ \E t \in Threads :
       /\ calls[t].pc = "idle"
       /\ \E op \in {"connect", "disconnect", "get_connection"},
             ssh \in BOOLEAN :
            calls' = [ calls EXCEPT ![t] =
                         [ op |-> op,
                           pc |-> IF op = "connect" THEN "tunnel_new"
                                  ELSE "lock_connections",
                           ssh |-> op = "connect" /\ ssh,
                           held |-> {} ] ]
  /\ UNCHANGED << TunnelState, connections, ssh_tunnels, lastCall, sshCall,
                  task >>

\* Mutex::lock: the thread goes on once no thread holds the guard
MutexLock ==
  /\ \E t \in Threads : \E l \in LockPoints :
       /\ calls[t].op = l.op /\ calls[t].pc = l.pc
       /\ LockHolder(l.mutex) = {}
       /\ calls' = [ calls EXCEPT ![t].held = @ \cup {l.mutex},
                                  ![t].pc = l.next ]
  /\ UNCHANGED << TunnelState, connections, ssh_tunnels, lastCall, sshCall,
                  task >>

\* the guards of a scope are dropped at its end
GuardDrop ==
  /\ \E t \in Threads : \E e \in ScopeEnds :
       /\ calls[t].op = e.op /\ calls[t].pc = e.pc
       /\ calls' = [ calls EXCEPT ![t].held = @ \ e.drops,
                                  ![t].pc = e.next ]
  /\ UNCHANGED << TunnelState, connections, ssh_tunnels, lastCall, sshCall,
                  task >>

\* the statements of connect between its scopes: SshTunnel::new (lines
\* 68-93), build_connection_string (lines 95, 190-193), Client::open, the
\* handshake and PING (lines 98-138) for the answer ro
ConnectBranch(c, tunnel_ok, ro) ==
  CASE c.pc = "tunnel_new" ->
         [ c EXCEPT !.pc = IF ~c.ssh THEN "build"
                           ELSE IF tunnel_ok THEN "lock_insert"
                           ELSE "return" ]
    [] c.pc = "build" ->
         [ c EXCEPT !.pc = IF c.ssh THEN "lock_read" ELSE "open" ]
    [] c.pc = "open" ->
         [ c EXCEPT !.pc = CASE ro = "ok" -> "lock_register"
                             [] ro = "ping_err" -> "return"
                             [] OTHER -> "lock_remove" ]

ConnectBetweenScopes ==
  /\ \E t \in Threads :
       /\ calls[t].op = "connect"
       /\ calls[t].pc \in {"tunnel_new", "build", "open"}
       /\ \E tunnel_ok \in BOOLEAN, ro \in RedisOutcomes :
            calls' = [ calls EXCEPT ![t] =
                         ConnectBranch(calls[t], tunnel_ok, ro) ]
  /\ UNCHANGED << TunnelState, connections, ssh_tunnels, lastCall, sshCall,
                  task >>

\* the call returns to its caller
CallReturn ==
  /\ \E t \in Threads :
       /\ calls[t].pc = "return"
       /\ calls' = [ calls EXCEPT ![t] = NoCall ]
  /\ UNCHANGED << TunnelState, connections, ssh_tunnels, lastCall, sshCall,
                  task >>

(* --------------------------- specifications ---------------------------- *)

Forwarder(c) ==
  \/ FwdCreateSession(c)
  \/ FwdOpenChannel(c)
  \/ FwdPumpInit(c)
  \/ PumpLocal(c)
  \/ PumpRemote(c)

AcceptLoop ==
  \/ AcceptCheck
  \/ AcceptAccept
  \/ AcceptSpawn
  \/ AcceptSleep

Next ==
  \/ NewCreateSession
  \/ NewProbe
  \/ NewDropSession
  \/ NewChoosePort
  \/ NewBind
  \/ NewStartForwarding
  \/ NewReturn
  \/ Drop
  \/ AcceptLoop
  \/ ClientConnect
  \/ \E c \in Conns : Forwarder(c)
  \/ \E c \in Conns : InPump(conns[c]) /\ ClientClose(c)
  \/ \E c \in Conns : InPump(conns[c]) /\ TargetEof(c)

\* the tunnel from SshTunnel::new to the end of its accept loop, with the
\* forwarders of the connections made to it
Spec == Init /\ [][Next]_vars

\* SshTunnel::new for every configuration, with other processes taking and
\* releasing local ports, up to the end of the accept loop; the clients
\* connect but the forwarders spawned for them are not followed
TunnelInit == InitWith(Configs, SUBSET Ports)

TunnelNext ==
  \/ NewCreateSession
  \/ NewProbe
  \/ NewDropSession
  \/ NewChoosePort
  \/ NewBind
  \/ NewStartForwarding
  \/ NewReturn
  \/ Drop
  \/ OtherProcessBinds
  \/ OtherProcessReleases
  \/ AcceptLoop
  \/ ClientConnect

TunnelSpec == TunnelInit /\ [][TunnelNext]_vars

\* the accept-loop thread is scheduled as long as it has not returned
FairTunnelSpec == TunnelSpec /\ WF_vars(AcceptLoop)

\* one forwarder, from the moment the accept loop has spawned it, with the
\* client and the target writing bytes: the state is the one Spec reaches
\* when the first connection has been accepted and its thread spawned
PumpConn == 1

PumpInit ==
  /\ config \in LifecycleConfigs
  /\ newPc = "returned_ok"
  /\ newErr = ""
  /\ newSession = NoSession
  /\ local_port = PortBase
  /\ sessions = [ i \in SessionIds |->
                    IF i = SessionOf(ValidationOwner)
                      THEN [ NewSessionRec(ValidationOwner) EXCEPT !.open = FALSE ]
                      ELSE NotCreated ]
  /\ busyPorts = {}
  /\ listeners = {PortBase}
  /\ handle = "live"
  /\ stop_signal = FALSE
  /\ acceptPc = "check"
  /\ acceptConn = 0
  /\ ownerErrs = {}
  /\ conns = [ c \in Conns |->
                 IF c = PumpConn
                   THEN [ FreeConn EXCEPT !.st = "session", !.socket = "open" ]
                   ELSE FreeConn ]
  /\ CallersInit

PumpNext ==
  \/ Forwarder(PumpConn)
  \/ ClientWrite(PumpConn)
  \/ ClientClose(PumpConn)
  \/ TargetSend(PumpConn)
  \/ TargetEof(PumpConn)

PumpSpec == PumpInit /\ [][PumpNext]_vars

\* create_ssh_session called once, for every configuration and every
\* combination of answers
SessionInit == InitWith(Configs, {{}})

SessionNext == CallCreateSshSession

SessionSpec == SessionInit /\ [][SessionNext]_vars

\* a RedisConnectionManager and the calls made on it one at a time; the
\* tunnels it creates are followed only as far as the manager reads them
ManagerInit ==
  InitWith({ c \in LifecycleConfigs : c.auth_method = "Password" }, {{}})

ManagerNext ==
  \/ Connect
  \/ Disconnect

ManagerSpec == ManagerInit /\ [][ManagerNext]_vars

\* one task, the one of SshTunnel::new or the one of a forwarder, from its
\* first call to its return, for every configuration
TaskInit == InitWith(Configs, {{}})

TaskNext ==
  \/ TaskBegin
  \/ TaskTcpConnect
  \/ TaskSessionNew
  \/ TaskHandshake
  \/ TaskAuthenticate
  \/ TaskProbe
  \/ TaskClearTimeout
  \/ TaskChannelOpen
  \/ TaskPumpEntry
  \/ TaskStreamRead
  \/ TaskChannelWrite
  \/ TaskChannelRead

TaskSpec == TaskInit /\ [][TaskNext]_vars

\* the calls threads make at the same time into one manager, followed for
\* the guards they take
LockInit == ManagerInit

LockNext ==
  \/ CallBegin
  \/ MutexLock
  \/ GuardDrop
  \/ ConnectBetweenScopes
  \/ CallReturn

LockSpec == LockInit /\ [][LockNext]_vars

(* ------------------------------ claims --------------------------------- *)

AcceptLoopRunning == acceptPc \in {"check", "accept", "spawn", "sleep"}

\* the forwarder of connection c returns an error in this step
FailsNow(c) ==
  /\ Running(conns[c])
  /\ conns'[c].st = "done"
  /\ conns'[c].result # "ok"

IsPrefix(s, t) == Len(s) <= Len(t) /\ s = Take(t, Len(s))

\* C1: whenever SshTunnel::new has returned an error, whichever phase
\* failed, no listener is bound on any local port and no accept-loop thread
\* has been started
C1_NoPartialTunnelOnError ==
  newPc = "returned_err" => listeners = {} /\ acceptPc = "none"

\* C1 witness: SshTunnel::new returned the bind error, the last phase that
\* can fail
C1_Witness_BindFailed ==
  /\ newPc = "returned_err"
  /\ newErr = "Failed to bind local tunnel port"

\* C2 as claimed: the bytes written to the channel are a prefix of the
\* bytes the client wrote, and when the client has written them and closed,
\* a forwarder that returns without error has written all of them
C2_LocalToChannelComplete ==
  \A c \in Conns :
    /\ IsPrefix(conns[c].chan_out, ClientBytes(conns[c].cli_sent))
    /\ (conns[c].st = "done" /\ conns[c].result = "ok" /\ conns[c].cli_closed)
         => conns[c].chan_out = ClientBytes(conns[c].cli_sent)

\* C3 as claimed: every byte read from the channel has been written to the
\* local socket, whatever the readiness of that socket (a write that fails
\* with an error other than WouldBlock aside)
C3_ChannelToLocalComplete ==
  \A c \in Conns :
    conns[c].result # "Failed to write to stream" =>
      conns[c].sock_out =
        TargetBytes(conns[c].tgt_sent - Len(conns[c].chan_in))

C5_ForwarderErrorContained ==
  [][ \A c \in Conns :
        FailsNow(c) =>
          /\ acceptPc' = acceptPc
          /\ acceptConn' = acceptConn
          /\ listeners' = listeners
          /\ stop_signal' = stop_signal
          /\ handle' = handle
          /\ ownerErrs' = ownerErrs
          /\ newErr' = newErr
    ]_vars

\* C5 witness: the forwarder of connection 1 failed to open its channel, the
\* accept loop is still running on the bound listener and has spawned the
\* forwarder of connection 2, and the owner has seen no error
C5_Witness_LoopSurvivesFailure ==
  /\ conns[1].result = "Failed to create SSH channel"
  /\ conns[2].st = "session"
  /\ AcceptLoopRunning
  /\ listeners = {local_port}
  /\ ownerErrs = {}

\* C6: a session is used by the one task that created it: the forwarders'
\* sessions are pairwise distinct, each is the one its own create_ssh_session
\* call made, none is the validation session, and the validation session is
\* dropped before the accept loop exists
C6_SessionPerTask ==
  /\ \A c \in Conns :
       conns[c].session # NoSession =>
         /\ sessions[conns[c].session].created
         /\ sessions[conns[c].session].owner = c
         /\ conns[c].session # SessionOf(ValidationOwner)
         /\ \A d \in Conns \ {c} : conns[d].session # conns[c].session
  /\ newSession # NoSession => sessions[newSession].owner = ValidationOwner
  /\ acceptPc # "none" =>
       /\ newSession = NoSession
       /\ ~sessions[SessionOf(ValidationOwner)].open

\* C6 witness: two forwarders hold an open session each while pumping
C6_Witness_TwoSessions ==
  /\ InPump(conns[1]) /\ InPump(conns[2])
  /\ sessions[conns[1].session].open
  /\ sessions[conns[2].session].open

\* C7: once the SshTunnel is dropped the flag is true, and the accept loop,
\* wherever it was, then exits and releases the listener
C7_DropReleasesListener ==
  /\ [](handle = "dropped" => stop_signal)
  /\ \A pc \in {"check", "accept", "spawn", "sleep"} :
       (stop_signal /\ acceptPc = pc) ~> (acceptPc = "exited" /\ listeners = {})

\* C7 witness: after the drop the loop, which had spawned a forwarder, has
\* exited and released the listener, and another process has bound the port
C7_Witness_PortReboundAfterDrop ==
  /\ handle = "dropped" /\ stop_signal
  /\ acceptPc = "exited" /\ listeners = {}
  /\ local_port \in busyPorts
  /\ \E c \in Conns : conns[c].st = "session"

\* C8: the step that sets the flag changes no connection and no session,
\* and a forwarder returns only with an error, or on end-of-data of its
\* local socket, or on end-of-data of its channel
C8_StopLeavesForwarders ==
  [][ /\ (~stop_signal /\ stop_signal') =>
           conns' = conns /\ sessions' = sessions
      /\ \A c \in Conns :
           (Running(conns[c]) /\ conns'[c].st = "done") =>
              \/ conns'[c].result # "ok"
              \/ /\ conns[c].st = "local"
                 /\ conns[c].cli_closed /\ conns[c].sock_in = << >>
              \/ /\ conns[c].st = "remote"
                 /\ ChannelEof(conns'[c])
    ]_vars

\* C8 witness: the flag is set, the accept loop has exited, and a forwarder
\* is still pumping on its open socket, channel and session
C8_Witness_PumpingAfterStop ==
  /\ stop_signal /\ acceptPc = "exited"
  /\ \E c \in Conns :
       /\ InPump(conns[c])
       /\ conns[c].socket = "open" /\ conns[c].channel = "open"
       /\ sessions[conns[c].session].open

\* C9 as claimed: while the SshTunnel exists and is not dropped, exactly one
\* listener is bound, to local_port, and the accept loop is running
C9_ListenerWhileLive ==
  (handle = "live" /\ ~stop_signal) =>
     listeners = {local_port} /\ AcceptLoopRunning

\* C10: stop_signal is false until the SshTunnel is dropped, true from then
\* on, and the only step that changes it is Drop, from false to true
C10_StopSignalSetOnce ==
  /\ [](handle \in {"none", "live"} => ~stop_signal)
  /\ [](handle = "dropped" => stop_signal)
  /\ [][ /\ stop_signal => stop_signal'
         /\ stop_signal' # stop_signal => handle = "live" /\ handle' = "dropped"
       ]_vars

\* C10 witness: the SshTunnel was dropped and the accept loop has seen the flag
C10_Witness_Dropped ==
  handle = "dropped" /\ stop_signal /\ acceptPc = "exited"

\* the phases of SshTunnel::new in program order, and the steps between them
NewPhases ==
  << "create_session", "probe", "drop_session", "choose_port", "bind",
     "start_forwarding", "return_ok", "returned_ok" >>

PhaseIndex(pc) == CHOOSE i \in 1 .. Len(NewPhases) : NewPhases[i] = pc

\* C11: SshTunnel::new moves through its phases in program order (validation
\* session, probe, bind, accept loop), a failing phase ending the call; no
\* listener is bound before the bind phase and no accept loop exists before
\* start_forwarding, so a call that returns the probe error never held a port
C11_ProbeBeforeBind ==
  /\ [][ newPc' # newPc =>
           /\ newPc # "returned_err" /\ newPc # "returned_ok"
           /\ \/ newPc' = NewPhases[PhaseIndex(newPc) + 1]
              \/ /\ newPc' = "returned_err"
                 /\ newPc \in {"create_session", "probe", "bind"}
       ]_vars
  /\ [][ listeners' \ listeners # {} =>
           newPc = "bind" /\ newPc' = "start_forwarding" ]_vars
  /\ [][ acceptPc = "none" /\ acceptPc' # "none" =>
           newPc = "start_forwarding" /\ listeners # {} ]_vars
  /\ [](newPc \in {"create_session", "probe", "drop_session", "choose_port"}
          => listeners = {} /\ acceptPc = "none")
  /\ [][ newErr' = "SSH tunnel probe failed to reach" =>
           listeners = {} /\ listeners' = {} /\ acceptPc' = "none" ]_vars

\* C11 witness: the validation session authenticated, the probe channel
\* could not be opened, SshTunnel::new returned the probe error with the
\* validation session dropped and no port bound
C11_Witness_ProbeFailed ==
  /\ newPc = "returned_err"
  /\ newErr = "SSH tunnel probe failed to reach"
  /\ sessions[SessionOf(ValidationOwner)].created
  /\ ~sessions[SessionOf(ValidationOwner)].open
  /\ listeners = {}

\* C12 as claimed: when the forwarder terminates because the client closed
\* its side first (the return of lines 244-247, which closes the channel),
\* every byte the target had sent has been delivered to the local socket
C12_LocalCloseDrainsTarget ==
  \A c \in Conns :
    (conns[c].st = "done" /\ conns[c].channel = "closed") =>
       /\ conns[c].chan_in = << >>
       /\ conns[c].sock_out = TargetBytes(conns[c].tgt_sent)

\* C13 as claimed: when the forwarder terminates because the channel
\* reported end-of-data (the returns of lines 268-271 and 291-293, which
\* leave the channel to be dropped), every byte the client had written has
\* been read from the local socket and written to the channel
C13_TargetCloseDrainsClient ==
  \A c \in Conns :
    (conns[c].st = "done" /\ conns[c].result = "ok"
       /\ conns[c].channel = "dropped") =>
       /\ conns[c].sock_in = << >>
       /\ conns[c].chan_out = ClientBytes(conns[c].cli_sent)

\* C14 as claimed: once SshTunnel::new has returned Ok, for any configured
\* local_port, the field local_port() returns is non-zero, is the port the
\* tunnel's listener is bound to for as long as that listener exists, and
\* never changes
C14_LocalPortIsBoundPort ==
  /\ [](handle # "none" =>
          /\ local_port # 0
          /\ listeners # {} => listeners = {local_port})
  /\ [][ handle # "none" => local_port' = local_port ]_vars

\* C15 as claimed: with no local_port configured, the step that finds the
\* first free port of the range leaves the tunnel's listener bound to it,
\* and SshTunnel::new returns the bind error only in a step at which no
\* port of the range is free
C15_ScanBindsAndKeeps ==
  /\ [][ ( /\ config.local_port = None
           /\ newPc = "choose_port" /\ newPc' # "choose_port"
           /\ IsSome(find_available_port(busyPorts)) )
         => listeners' = { Unwrap(find_available_port(busyPorts)) } ]_vars
  /\ [][ ( /\ config.local_port = None
           /\ newErr = "" /\ newErr' = "Failed to bind local tunnel port" )
         => Ports \subseteq busyPorts ]_vars

\* C16 as claimed: with a local_port configured, the only port this process
\* ever binds is that port; the port SshTunnel::new goes on with is the
\* configured one; a failed bind ends the call with the bind error and
\* nothing bound, and after a successful bind the listener is on that port
C16_PreferredPortOnly ==
  IsSome(config.local_port) =>
    /\ listeners \subseteq { Unwrap(config.local_port) }
    /\ newPc \in {"bind", "start_forwarding", "return_ok", "returned_ok"}
         => local_port = Unwrap(config.local_port)
    /\ newPc = "start_forwarding"
         => listeners = { Unwrap(config.local_port) }
    /\ newErr = "Failed to bind local tunnel port" => listeners = {}

\* the call reached the authentication step: connect, Session::new and
\* handshake succeeded
ReachedAuth(e) == e.tcp /\ e.session_new /\ e.handshake

\* C17: create_ssh_session returns Ok only when session.authenticated() is
\* true at the return; with Password and no password, and with PrivateKey
\* and a key path that does not exist, it returns Err without any userauth
\* call, the error naming the missing password / key file once the handshake
\* is done; a userauth call that raised no error on a session that is not
\* authenticated gives "SSH authentication failed"
C17_SessionOnlyIfAuthenticated ==
  IsSome(sshCall) =>
    LET e == Unwrap(sshCall).env
        r == Unwrap(sshCall).result
    IN /\ r.ok => (ReachedAuth(e) /\ r.auth_called /\ e.userauth /\ e.authenticated)
       /\ (config.auth_method = "Password" /\ config.ssh_password = None) =>
            /\ ~r.ok /\ ~r.auth_called
            /\ ReachedAuth(e) => r.err = "SSH password required"
       /\ ( /\ config.auth_method = "PrivateKey"
            /\ IsSome(config.ssh_private_key_path) /\ ~e.key_exists ) =>
            /\ ~r.ok /\ ~r.auth_called
            /\ ReachedAuth(e) => r.err = "SSH private key file not found"
       /\ (r.auth_called /\ e.userauth /\ ~e.authenticated) =>
            ~r.ok /\ r.err = "SSH authentication failed"

\* C17 witness: the key file exists, userauth_pubkey_file raised no error,
\* the session is not authenticated, and the call returned the error
C17_Witness_NotAuthenticated ==
  /\ IsSome(sshCall)
  /\ config.auth_method = "PrivateKey"
  /\ Unwrap(sshCall).env.userauth /\ ~Unwrap(sshCall).env.authenticated
  /\ Unwrap(sshCall).result.auth_called
  /\ Unwrap(sshCall).result.err = "SSH authentication failed"

\* C18 as claimed: after every completed call of the manager a tunnel is in
\* ssh_tunnels for an id only if a client is in connections for that id; a
\* connect that returned without registering has released the tunnel it
\* made, and after disconnect neither map holds the id
C18_TunnelOnlyWithConnection ==
  /\ \A i \in Ids : IsSome(ssh_tunnels[i]) => IsSome(connections[i])
  /\ IsSome(lastCall) =>
       /\ ( /\ Unwrap(lastCall).op = "connect"
            /\ ~Unwrap(lastCall).connected
            /\ IsSome(Unwrap(lastCall).tunnel) )
          => ssh_tunnels[Unwrap(lastCall).id] # Unwrap(lastCall).tunnel
       /\ Unwrap(lastCall).op = "disconnect" =>
            /\ connections[Unwrap(lastCall).id] = None
            /\ ssh_tunnels[Unwrap(lastCall).id] = None

\* host and port of the Redis server as the configuration names them
DirectAddress(cfg) == [ host |-> cfg.host, port |-> cfg.port ]

\* C19: a connect whose enabled tunnel was created opens its client on
\* 127.0.0.1 and the local_port() of that tunnel, not on config.host and
\* config.port; a connect with no tunnel or a disabled one opens it on
\* config.host and config.port; a connect whose tunnel could not be created
\* opens no client; the client it registers is the one it opened
C19_ClientAddress ==
  (IsSome(lastCall) /\ Unwrap(lastCall).op = "connect") =>
    LET c == Unwrap(lastCall)
        cfg == Unwrap(Unwrap(lastCall).config)
    IN /\ (TunnelWanted(cfg) /\ IsSome(c.tunnel) /\ IsSome(c.client)) =>
            /\ Unwrap(c.client) =
                 [ host |-> Localhost, port |-> Unwrap(c.tunnel).local_port ]
            /\ Unwrap(c.client) # DirectAddress(cfg)
       /\ (~TunnelWanted(cfg) /\ IsSome(c.client)) =>
            Unwrap(c.client) = DirectAddress(cfg)
       /\ (TunnelWanted(cfg) /\ ~IsSome(c.tunnel)) =>
            c.client = None /\ ~c.connected
       /\ c.connected => IsSome(c.client) /\ connections[c.id] = c.client

\* C19 witness: a connect with an enabled tunnel registered its client on
\* 127.0.0.1 and the port of the tunnel now held for the id
C19_Witness_ThroughTunnel ==
  /\ IsSome(lastCall)
  /\ Unwrap(lastCall).op = "connect" /\ Unwrap(lastCall).connected
  /\ IsSome(Unwrap(lastCall).tunnel)
  /\ ssh_tunnels[Unwrap(lastCall).id] = Unwrap(lastCall).tunnel
  /\ IsSome(connections[Unwrap(lastCall).id])
  /\ Unwrap(connections[Unwrap(lastCall).id]).host = Localhost
  /\ Unwrap(connections[Unwrap(lastCall).id]).port =
       Unwrap(ssh_tunnels[Unwrap(lastCall).id]).local_port

\* the blocking calls of the setup
BlockingSetupCalls ==
  { "tcp_connect", "handshake", "userauth", "probe_open", "channel_open" }

\* C20 as claimed: a task executes each blocking setup call (TCP connect,
\* handshake, authentication, probe channel open, forwarder channel open)
\* with a timeout in force, reads its local stream only in non-blocking mode
\* and reads its channel only with the session non-blocking
C20_BoundedBlocking ==
  /\ task.pc \in BlockingSetupCalls => task.timeout > 0
  /\ task.pc = "stream_read" => task.stream_nonblocking
  /\ task.pc = "channel_read" => ~task.blocking

\* C21: a forwarder returns Ok from its local read only when that read found
\* the client closed with nothing left to read; in that same step the
\* channel is closed and the forwarder ends, and every byte the client wrote
\* has been written to the channel by the earlier iterations; the channel is
\* closed on no other path
C21_LocalEofClosesChannel ==
  /\ [][ \A c \in Conns :
           ( /\ conns[c].st = "local"
             /\ conns'[c].st = "done" /\ conns'[c].result = "ok" )
           => /\ conns[c].cli_closed /\ conns[c].sock_in = << >>
              /\ conns'[c].channel = "closed"
              /\ conns'[c].chan_out = conns[c].chan_out
              /\ conns[c].chan_out = ClientBytes(conns[c].cli_sent)
       ]_vars
  /\ [](\A c \in Conns :
          conns[c].channel = "closed" =>
            /\ conns[c].st = "done" /\ conns[c].result = "ok"
            /\ conns[c].chan_out = ClientBytes(conns[c].cli_sent))

\* C21 witness: the client wrote MaxLen bytes and closed; the forwarder has
\* written them all, closed the channel and returned Ok
C21_Witness_AllWrittenThenClosed ==
  /\ conns[PumpConn].st = "done" /\ conns[PumpConn].result = "ok"
  /\ conns[PumpConn].channel = "closed"
  /\ conns[PumpConn].cli_sent = MaxLen
  /\ conns[PumpConn].chan_out = ClientBytes(MaxLen)

\* C22: whatever the path by which a forwarder ended (either end-of-data, a
\* read or write error on either side, a failed session creation, a failed
\* channel open), its local socket is closed, its channel, if one was
\* opened, is closed or released, and its session is closed
C22_ForwarderEndReleasesBoth ==
  \A c \in Conns :
    conns[c].st = "done" =>
      /\ conns[c].socket = "dropped"
      /\ conns[c].channel \in {"none", "closed", "dropped"}
      /\ conns[c].channel = "none" <=>
           conns[c].result \in
             { r.err : r \in { o \in SessionOutcomes(config) : ~o.ok } }
               \cup {"Failed to create SSH channel"}
      /\ conns[c].session # NoSession => ~sessions[conns[c].session].open

\* C22 witness: the forwarder ended on a failed write to the local socket
\* after part of the target's bytes were delivered; socket and channel are
\* released
C22_Witness_WriteErrorReleases ==
  /\ conns[PumpConn].st = "done"
  /\ conns[PumpConn].result = "Failed to write to stream"
  /\ conns[PumpConn].sock_out # << >>
  /\ conns[PumpConn].socket = "dropped"
  /\ conns[PumpConn].channel = "dropped"

\* C23: a forwarder clears the session's timeout only after its
\* authentication succeeded; at every read of the local socket or of the
\* channel the session and the socket are non-blocking; once in the pump the
\* session is blocking only at the write to the channel, or in a forwarder
\* that ended on the failure of that write
C23_BlockingScopedToChannelWrite ==
  /\ [][ (task.timeout # 0 /\ task'.timeout = 0)
           => task.kind = "forwarder" /\ task.pc = "clear_timeout" ]_vars
  /\ [][ (task.pc # "clear_timeout" /\ task'.pc = "clear_timeout")
           => /\ task.pc = "userauth"
              /\ \E e \in AuthEnvs : create_ssh_session(config, e).ok ]_vars
  /\ [](task.pc \in {"stream_read", "channel_read"}
          => ~task.blocking /\ task.stream_nonblocking)
  /\ [](task.stream_nonblocking /\ task.blocking
          => \/ task.pc = "channel_write"
             \/ /\ task.pc = "failed"
                /\ task.result = "Failed to write to channel")

\* C23 witness: the forwarder has written to the channel and is at the
\* channel read of the same iteration, the session non-blocking again
C23_Witness_RestoredAfterWrite ==
  /\ task.kind = "forwarder"
  /\ task.pc = "channel_read"
  /\ task.read.side = "stream" /\ task.read.ret = "data"
  /\ task.progress
  /\ task.timeout = 0
  /\ ~task.blocking

\* C24 as claimed: an iteration of the pump that does not return ends in a
\* sleep exactly when neither direction transferred bytes in it; the sleep is
\* of 1 ms while the number of consecutive idle iterations is at most 100 and
\* of 10 ms once it exceeds 100; an iteration that transferred bytes leaves
\* the counter at zero; no sleep is longer than 10 ms
C24_AdaptiveBackoff ==
  [][ (task.pc = "channel_read" /\ task'.pc \notin {"done", "failed"})
        => /\ task'.pc = "stream_read"
           /\ task'.slept # 0 <=> ~task'.progress
           /\ ~task'.progress =>
                task'.slept = IF task'.idle_run > IdleThreshold
                                THEN LongDelayMs ELSE ShortDelayMs
           /\ task'.progress => task'.idle_count = 0
           /\ task'.slept <= LongDelayMs ]_vars

\* C30 as claimed: the increment of the idle counter never leaves the range
\* of its type, neither failing nor wrapping, so that every idle iteration
\* adds one to it, and a delay once escalated to 10 ms stays at 10 ms until
\* an iteration transfers bytes
C30_IdleCounterNeverOverflows ==
  /\ [][ ( /\ task.pc = "channel_read"
           /\ task'.pc \notin {"done", "failed"}
           /\ ~task'.progress )
           => /\ task'.pc = "stream_read"
              /\ task'.idle_count = task.idle_count + 1 ]_vars
  /\ [][ (task.slept = LongDelayMs /\ task'.slept # LongDelayMs)
           => task'.progress ]_vars

\* C25 as claimed: a read that would block (an error of kind WouldBlock on
\* either side, or an error of the channel whose message holds "EAGAIN" or
\* "would block") does nothing and ends nothing: after the local read the
\* forwarder goes on to the channel read, after the channel read to the next
\* iteration; any other read error ends the forwarder with an error
C25_WouldBlockIsIgnored ==
  /\ [][ (task.pc = "stream_read" /\ task'.pc # "stream_read")
           => IF IsWouldBlock(task'.read)
                THEN /\ task'.pc = "channel_read"
                     /\ task'.result = task.result
                     /\ task'.blocking = task.blocking
                     /\ ~task'.progress
                ELSE task'.read.ret = "err"
                       => /\ task'.pc = "failed"
                          /\ task'.result = "Stream read error" ]_vars
  /\ [][ (task.pc = "channel_read" /\ task'.pc # "channel_read")
           => IF \/ IsWouldBlock(task'.read)
                 \/ task'.read.ret = "err" /\ MessageSaysWouldBlock(task'.read)
                THEN /\ task'.pc = "stream_read"
                     /\ task'.result = task.result
                     /\ task'.blocking = task.blocking
                     /\ task'.progress = task.progress
                ELSE task'.read.ret = "err"
                       => /\ task'.pc = "failed"
                          /\ task'.result = "Channel read error" ]_vars

\* C26: with no local_port configured, a scan that finds no port of the
\* range free binds nothing, a bind made while no port of the range is free
\* ends SshTunnel::new with the bind error, and a call that ended with the
\* bind error holds no listener and returned no tunnel
C26_NoFreePortFailsBind ==
  /\ [][ ( /\ config.local_port = None
           /\ newPc = "choose_port" /\ newPc' # "choose_port"
           /\ Ports \subseteq busyPorts )
         => /\ find_available_port(busyPorts) = None
            /\ listeners' = {} ]_vars
  /\ [][ ( /\ config.local_port = None
           /\ newPc = "bind" /\ newPc' # "bind"
           /\ Ports \subseteq busyPorts )
         => /\ newPc' = "returned_err"
            /\ newErr' = "Failed to bind local tunnel port"
            /\ listeners' = {} ]_vars
  /\ [](newErr = "Failed to bind local tunnel port"
          => listeners = {} /\ handle = "none" /\ acceptPc = "none")

\* C26 witness: no local_port configured, every port of the range taken by
\* other processes, and SshTunnel::new has returned the bind error
C26_Witness_RangeExhausted ==
  /\ config.local_port = None
  /\ Ports \subseteq busyPorts
  /\ newPc = "returned_err"
  /\ newErr = "Failed to bind local tunnel port"
  /\ listeners = {}

\* C27: the flag once set stays set; a loop that reads it set at its check
\* returns in that step, and a loop that has returned accepts nothing and
\* spawns nothing; connections are accepted only by the accept call and
\* forwarders spawned only for the connection just accepted; while the flag
\* is set the loop does not come to a new accept call, so that the one
\* accept call it may be at when the flag is set is the last
C27_AtMostOneAcceptAfterStop ==
  /\ [][ stop_signal => stop_signal' ]_vars
  /\ [][ (stop_signal /\ acceptPc = "check" /\ acceptPc' # "check")
           => acceptPc' = "exited" ]_vars
  /\ [][ (stop_signal /\ acceptPc # "accept") => acceptPc' # "accept" ]_vars
  /\ [][ \A c \in Conns :
           /\ (conns[c].st # "accepted" /\ conns'[c].st = "accepted")
                => acceptPc = "accept" /\ acceptPc' = "spawn"
           /\ (conns[c].st = "accepted" /\ conns'[c].st # "accepted")
                => acceptPc = "spawn" /\ conns'[c].st = "session" ]_vars
  /\ [][ acceptPc = "exited"
           => /\ acceptPc' = "exited"
              /\ \A c \in Conns :
                   conns'[c].st \in {"accepted", "session"}
                     => conns'[c].st = conns[c].st ]_vars

\* C27 witness: the owner dropped the tunnel while the loop was past its
\* check; the loop has spawned the forwarder of a connection, has then read
\* the flag and returned, and a later connection was refused
C27_Witness_LastAcceptThenExit ==
  /\ stop_signal /\ handle = "dropped"
  /\ acceptPc = "exited"
  /\ \E c \in Conns : conns[c].st = "session"
  /\ \E c \in Conns : conns[c].st = "refused"

\* C28 as claimed: after any completed calls of connect and disconnect, for
\* every id with both a registered client and a held tunnel, the client is
\* addressed to 127.0.0.1 and the local_port of that tunnel
C28_ClientFollowsHeldTunnel ==
  \A i \in Ids :
    (IsSome(connections[i]) /\ IsSome(ssh_tunnels[i]))
      => Unwrap(connections[i]) =
           [ host |-> Localhost, port |-> Unwrap(ssh_tunnels[i]).local_port ]

\* the mutex a thread is about to lock, and the threads that wait for a
\* mutex some thread holds
WaitsFor(t) ==
  { l.mutex : l \in { k \in LockPoints :
                        k.op = calls[t].op /\ k.pc = calls[t].pc } }

Blocked(t) == \E m \in WaitsFor(t) : LockHolder(m) # {}

\* C29: no state of concurrent calls of connect, disconnect and
\* get_connection has a set of threads each waiting for a mutex held inside
\* the set; a thread that locks one mutex while holding the other holds
\* connections and locks ssh_tunnels, never the reverse; and a mutex has at
\* most one holder
C29_NoLockOrderInversion ==
  /\ ~ \E S \in (SUBSET Threads) \ {{}} :
         \A t \in S :
           /\ Blocked(t)
           /\ \A m \in WaitsFor(t) : LockHolder(m) \subseteq S
  /\ \A t \in Threads :
       (WaitsFor(t) # {} /\ calls[t].held # {})
         => calls[t].held = {"connections"} /\ WaitsFor(t) = {"ssh_tunnels"}
  /\ \A m \in Mutexes : Cardinality(LockHolder(m)) <= 1

\* C29 witness: a disconnect holds connections and waits for ssh_tunnels
\* while a connect holds ssh_tunnels
C29_Witness_DisconnectWaitsForConnect ==
  \E t, u \in Threads :
    /\ calls[t].op = "disconnect" /\ calls[t].pc = "lock_tunnels"
    /\ calls[t].held = {"connections"}
    /\ calls[u].op = "connect" /\ calls[u].held = {"ssh_tunnels"}

====
